---- MODULE Spec2Model ----
(***************************************************************************)
(* A model of the three coordination benchmarks of the repository:         *)
(*   benchmarks/fanout/python.py    one producer, W workers, sentinels     *)
(*   benchmarks/pingpong/python.py  two roles, two queues, lock-step       *)
(*   benchmarks/skynet/python.py    recursive spawn/join tree              *)
(* Each benchmark is its own program, so each has its own specification    *)
(* (SpecFanout, SpecPingPong, SpecSkynet) over its own variables; the      *)
(* variables of the other two stay at their idle value.                    *)
(*                                                                         *)
(* Fanout and pingpong are modelled with one action per statement and an   *)
(* arbitrary interleaving of the tasks; asyncio's cooperative schedule is  *)
(* one of these interleavings.                                             *)
(***************************************************************************)
EXTENDS Integers, Sequences, FiniteSets, TLC

\* Bounds of the model: the largest message count, worker count, round-trip
\* count and skynet tree depth that Init draws.
MaxMessages == 3
MaxWorkers == 3
MaxIterations == 6
MaxDepth == 2
MaxSize == 21
MaxTasks == 30
MaxFibArg == 3
MaxRepeat == 2

VARIABLES
  \* ---- fanout: benchmarks/fanout/python.py
  NUM_MESSAGES,   \* the message count N
  NUM_WORKERS,    \* the worker count W
  work_queue,     \* asyncio.Queue: sequence of [id, val]; id is a history tag
  done_queue,     \* asyncio.Queue: sequence of counts
  wpc,            \* worker -> "new" | "get" | "test" | "yield" | "done"
  count,          \* worker -> its private counter
  val,            \* worker -> the value of its last get
  fpc,            \* main's position
  fi,             \* main's loop index (spawn, produce, sentinel, collect loops)
  total,          \* main's running total
  printed,        \* the results printed on BENCH lines, in order
  \* history of the fanout run (not read by any guard)
  put_log,        \* values put on work_queue, in order
  removed,        \* ids removed from work_queue, in order
  sentinels_got,  \* worker -> sentinels it received
  late_gets,      \* worker -> gets it performed after having received a sentinel
  reports,        \* worker -> puts it made on done_queue
  read_log,       \* values main read from done_queue, in order
  got_log,        \* values the workers got from work_queue, in order
  report_log,     \* values the workers put on done_queue, in order
  missing,        \* sentinels withheld from the run: 0 in the program as
                  \* written, positive only where a protocol violation is
                  \* injected (SpecFanoutShort)
  \* ---- pingpong: benchmarks/pingpong/python.py
  ITERATIONS,     \* the round-trip count N
  ping_queue,     \* asyncio.Queue, initiator -> responder
  pong_queue,     \* asyncio.Queue, responder -> initiator
  ppc,            \* main's position, ping's included (ping runs inside main)
  ping_i,         \* ping's loop variable i
  pong_pc,        \* pong task: "new" | "get" | "put" | "done"
  pong_n,         \* iterations pong has completed
  pong_val,       \* pong's val
  pp_printed,     \* the results printed on BENCH lines, in order
  \* history of the pingpong run (not read by any guard)
  ping_sent,      \* values ping put on ping_queue, in order
  ping_echo,      \* values ping got from pong_queue, in order
  pong_got,       \* values pong got from ping_queue, in order
  pong_sent,      \* values pong put on pong_queue, in order
  \* ---- skynet: benchmarks/skynet/python.py
  SIZE,           \* the leaf count S
  tasks,          \* the invocations of skynet, in creation order: records
                  \* [num, size, parent, state, children, result]
  ready,          \* the event loop's run queue: ids of tasks that can step
  policy,         \* which task of the run queue the event loop takes
  spc,            \* main's position
  sky_result,     \* main's result
  sky_printed,    \* the results printed on BENCH lines, in order
  \* ---- fibonacci: benchmarks/fibonacci/python.py
  fib_pc,         \* position in main and in the sub-test it is running
  fib_idx,        \* the sub-test of main's list that is next or running
  fib_n,          \* bench / bench_repeated: n
  fib_expected,   \* bench / bench_repeated: expected
  fib_iterations, \* bench_repeated: iterations
  fib_k,          \* bench_repeated: iterations of the loop done
  fib_result,     \* bench / bench_repeated: result
  fib_out,        \* standard output: per line its kind and its sub-test
  fib_line,       \* standard output: the fields of the last line
  \* history of the fibonacci run (not read by any guard)
  fib_differs     \* the sub-tests whose result was not the expected value

fanoutVars == <<NUM_MESSAGES, NUM_WORKERS, work_queue, done_queue, wpc, count,
                val, fpc, fi, total, printed, put_log, removed, sentinels_got,
                late_gets, reports, read_log, got_log, report_log, missing>>

pingVars == <<ITERATIONS, ping_queue, pong_queue, ppc, ping_i, pong_pc, pong_n,
              pong_val, pp_printed, ping_sent, ping_echo, pong_got, pong_sent>>

skyVars == <<SIZE, tasks, ready, policy, spc, sky_result, sky_printed>>

fibVars == <<fib_pc, fib_idx, fib_n, fib_expected, fib_iterations, fib_k,
             fib_result, fib_out, fib_line, fib_differs>>

vars == <<fanoutVars, pingVars, skyVars, fibVars>>

\* ------------------------------------------------------------------------
\* asyncio.Queue, unbounded: put appends and never suspends, get suspends
\* while the queue is empty and then removes the head.
\* ------------------------------------------------------------------------
\* Mutant of QueuePut: the new item goes to the head of the queue.
QueuePut_Front(q, x) == <<x>> \o q

QueuePut(q, x) == Append(q, x)

QueueCanGet(q) == Len(q) > 0

QueueHead(q) == Head(q)

\* Mutant of QueueRest: get returns the head and leaves it in the queue.
QueueRest_Peek(q) == q

QueueRest(q) == Tail(q)

\* The benchmarks that are not running: nothing created, nothing printed.
FanoutIdle ==
  /\ NUM_MESSAGES = 0
  /\ NUM_WORKERS = 0
  /\ work_queue = <<>>
  /\ done_queue = <<>>
  /\ wpc = <<>>
  /\ count = <<>>
  /\ val = <<>>
  /\ fpc = "idle"
  /\ fi = 0
  /\ total = 0
  /\ printed = <<>>
  /\ put_log = <<>>
  /\ removed = <<>>
  /\ sentinels_got = <<>>
  /\ late_gets = <<>>
  /\ reports = <<>>
  /\ read_log = <<>>
  /\ got_log = <<>>
  /\ report_log = <<>>
  /\ missing = 0

PingPongIdle ==
  /\ ITERATIONS = 0
  /\ ping_queue = <<>>
  /\ pong_queue = <<>>
  /\ ppc = "idle"
  /\ ping_i = 0
  /\ pong_pc = "new"
  /\ pong_n = 0
  /\ pong_val = 0
  /\ pp_printed = <<>>
  /\ ping_sent = <<>>
  /\ ping_echo = <<>>
  /\ pong_got = <<>>
  /\ pong_sent = <<>>

SkynetIdle ==
  /\ SIZE = 0
  /\ tasks = <<>>
  /\ ready = <<>>
  /\ policy = "oldest"
  /\ spc = "idle"
  /\ sky_result = 0
  /\ sky_printed = <<>>

NoLine == [kind |-> "none"]

FibIdle ==
  /\ fib_pc = "idle"
  /\ fib_idx = 0
  /\ fib_n = 0
  /\ fib_expected = 0
  /\ fib_iterations = 0
  /\ fib_k = 0
  /\ fib_result = 0
  /\ fib_out = <<>>
  /\ fib_line = NoLine
  /\ fib_differs = {}

\* ------------------------------------------------------------------------
\* fanout
\* ------------------------------------------------------------------------
SENTINEL == -1

Workers == 1..NUM_WORKERS

\* Mutant of IsSentinel: the test written with <= takes payload 0 for a sentinel.
IsSentinel_NonPositive(v) == v <= 0

\* worker, line 19: if val < 0
IsSentinel(v) == v < 0

\* Mutant of SentinelCount: one sentinel too few.
SentinelCount_OneShort == NUM_WORKERS - 1

\* main, line 47: one sentinel per worker
SentinelCount == NUM_WORKERS - missing

\* Mutant of ResultCount: the collecting loop stops one result short.
ResultCount_OneShort == NUM_WORKERS - 1

\* main, line 52: one result read per worker
ResultCount == NUM_WORKERS

Msg(v) == [id |-> Len(put_log) + 1, val |-> v]

FanoutBegin ==
  /\ PingPongIdle
  /\ SkynetIdle
  /\ FibIdle
  /\ NUM_MESSAGES \in 0..MaxMessages
  /\ NUM_WORKERS \in 1..MaxWorkers
  /\ work_queue = <<>>
  /\ done_queue = <<>>
  /\ wpc = [w \in Workers |-> "new"]
  /\ count = [w \in Workers |-> 0]
  /\ val = [w \in Workers |-> 0]
  /\ fpc = "spawn"
  /\ fi = 0
  /\ total = 0
  /\ printed = <<>>
  /\ put_log = <<>>
  /\ removed = <<>>
  /\ sentinels_got = [w \in Workers |-> 0]
  /\ late_gets = [w \in Workers |-> 0]
  /\ reports = [w \in Workers |-> 0]
  /\ read_log = <<>>
  /\ got_log = <<>>
  /\ report_log = <<>>

\* The program as written sends every sentinel.
FanoutInit ==
  /\ FanoutBegin
  /\ missing = 0

\* main, lines 36-39: create the worker tasks, one per iteration.
MainSpawn ==
  /\ fpc = "spawn"
  /\ IF fi < NUM_WORKERS
       THEN /\ wpc' = [wpc EXCEPT ![fi + 1] = "get"]
            /\ fi' = fi + 1
            /\ fpc' = fpc
       ELSE /\ fpc' = "start"
            /\ fi' = 0
            /\ wpc' = wpc
  /\ UNCHANGED <<pingVars, skyVars, fibVars>>
  /\ UNCHANGED <<NUM_MESSAGES, NUM_WORKERS, missing, work_queue, done_queue, count, val,
                 total, printed, put_log, removed, got_log, sentinels_got, late_gets,
                 reports, report_log, read_log>>

\* main, line 41: start = time.perf_counter_ns()
MainStart ==
  /\ fpc = "start"
  /\ fpc' = "produce"
  /\ UNCHANGED <<pingVars, skyVars, fibVars>>
  /\ UNCHANGED <<NUM_MESSAGES, NUM_WORKERS, missing, work_queue, done_queue, wpc, count,
                 val, fi, total, printed, put_log, removed, got_log, sentinels_got,
                 late_gets, reports, report_log, read_log>>

\* producer, lines 26-28 (awaited by main, line 44): put 0..count-1.
Produce ==
  /\ fpc = "produce"
  /\ IF fi < NUM_MESSAGES
       THEN /\ work_queue' = QueuePut(work_queue, Msg(fi))
            /\ put_log' = Append(put_log, fi)
            /\ fi' = fi + 1
            /\ fpc' = fpc
       ELSE /\ fpc' = "sentinels"
            /\ fi' = 0
            /\ UNCHANGED <<work_queue, put_log>>
  /\ UNCHANGED <<pingVars, skyVars, fibVars>>
  /\ UNCHANGED <<NUM_MESSAGES, NUM_WORKERS, missing, done_queue, wpc, count, val, total,
                 printed, removed, got_log, sentinels_got, late_gets, reports, report_log, read_log>>

\* main, lines 47-48: put the sentinel once per worker.
SendSentinels ==
  /\ fpc = "sentinels"
  /\ IF fi < SentinelCount
       THEN /\ work_queue' = QueuePut(work_queue, Msg(SENTINEL))
            /\ put_log' = Append(put_log, SENTINEL)
            /\ fi' = fi + 1
            /\ fpc' = fpc
       ELSE /\ fpc' = "collect"
            /\ fi' = 0
            /\ UNCHANGED <<work_queue, put_log>>
  /\ UNCHANGED <<pingVars, skyVars, fibVars>>
  /\ UNCHANGED <<NUM_MESSAGES, NUM_WORKERS, missing, done_queue, wpc, count, val, total,
                 printed, removed, got_log, sentinels_got, late_gets, reports, report_log, read_log>>

\* main, lines 51-53: total += await done_queue.get(), once per worker.
Collect ==
  /\ fpc = "collect"
  /\ IF fi < ResultCount
       THEN /\ QueueCanGet(done_queue)
            /\ total' = total + QueueHead(done_queue)
            /\ read_log' = Append(read_log, QueueHead(done_queue))
            /\ done_queue' = QueueRest(done_queue)
            /\ fi' = fi + 1
            /\ fpc' = fpc
       ELSE /\ fpc' = "gather"
            /\ fi' = 0
            /\ UNCHANGED <<total, read_log, done_queue>>
  /\ UNCHANGED <<pingVars, skyVars, fibVars>>
  /\ UNCHANGED <<NUM_MESSAGES, NUM_WORKERS, missing, work_queue, wpc, count, val,
                 printed, put_log, removed, got_log, sentinels_got, late_gets, reports, report_log>>

\* main, line 56: await asyncio.gather(*workers)
Gather ==
  /\ fpc = "gather"
  /\ \A w \in Workers : wpc[w] = "done"
  /\ fpc' = "stop"
  /\ UNCHANGED <<pingVars, skyVars, fibVars>>
  /\ UNCHANGED <<NUM_MESSAGES, NUM_WORKERS, missing, work_queue, done_queue, wpc, count,
                 val, fi, total, printed, put_log, removed, got_log, sentinels_got,
                 late_gets, reports, report_log, read_log>>

\* main, line 58: elapsed = ...
MainStop ==
  /\ fpc = "stop"
  /\ fpc' = "print"
  /\ UNCHANGED <<pingVars, skyVars, fibVars>>
  /\ UNCHANGED <<NUM_MESSAGES, NUM_WORKERS, missing, work_queue, done_queue, wpc, count,
                 val, fi, total, printed, put_log, removed, got_log, sentinels_got,
                 late_gets, reports, report_log, read_log>>

\* main, line 60: print the BENCH line with total.
MainPrint ==
  /\ fpc = "print"
  /\ printed' = Append(printed, total)
  /\ fpc' = "done"
  /\ UNCHANGED <<pingVars, skyVars, fibVars>>
  /\ UNCHANGED <<NUM_MESSAGES, NUM_WORKERS, missing, work_queue, done_queue, wpc, count,
                 val, fi, total, put_log, removed, got_log, sentinels_got, late_gets,
                 reports, report_log, read_log>>

\* worker, line 18: val = await work_queue.get()
WorkerGet(w) ==
  /\ wpc[w] = "get"
  /\ QueueCanGet(work_queue)
  /\ val' = [val EXCEPT ![w] = QueueHead(work_queue).val]
  /\ removed' = Append(removed, QueueHead(work_queue).id)
  /\ got_log' = Append(got_log, QueueHead(work_queue).val)
  /\ work_queue' = QueueRest(work_queue)
  /\ sentinels_got' = [sentinels_got EXCEPT ![w] =
                         @ + (IF QueueHead(work_queue).val = SENTINEL THEN 1 ELSE 0)]
  /\ late_gets' = [late_gets EXCEPT ![w] =
                     @ + (IF sentinels_got[w] > 0 THEN 1 ELSE 0)]
  /\ wpc' = [wpc EXCEPT ![w] = "test"]
  /\ UNCHANGED <<pingVars, skyVars, fibVars>>
  /\ UNCHANGED <<NUM_MESSAGES, NUM_WORKERS, missing, done_queue, count, fpc, fi, total,
                 printed, put_log, reports, report_log, read_log>>

\* Mutant of WorkerReport: the break is missing, the loop goes on.
WorkerReport_NoBreak(w) ==
  /\ wpc[w] = "test"
  /\ IsSentinel(val[w])
  /\ done_queue' = QueuePut(done_queue, count[w])
  /\ reports' = [reports EXCEPT ![w] = @ + 1]
  /\ report_log' = Append(report_log, count[w])
  /\ wpc' = [wpc EXCEPT ![w] = "get"]
  /\ UNCHANGED <<pingVars, skyVars, fibVars>>
  /\ UNCHANGED <<NUM_MESSAGES, NUM_WORKERS, missing, work_queue, count, val, fpc, fi,
                 total, printed, put_log, removed, got_log, sentinels_got, late_gets,
                 read_log>>

\* worker, lines 19-21: on the sentinel, put count on done_queue and break.
WorkerReport(w) ==
  /\ wpc[w] = "test"
  /\ IsSentinel(val[w])
  /\ done_queue' = QueuePut(done_queue, count[w])
  /\ reports' = [reports EXCEPT ![w] = @ + 1]
  /\ report_log' = Append(report_log, count[w])
  /\ wpc' = [wpc EXCEPT ![w] = "done"]
  /\ UNCHANGED <<pingVars, skyVars, fibVars>>
  /\ UNCHANGED <<NUM_MESSAGES, NUM_WORKERS, missing, work_queue, count, val, fpc, fi,
                 total, printed, put_log, removed, got_log, sentinels_got, late_gets,
                 read_log>>

\* worker, lines 19 and 22: otherwise count += 1
WorkerCount(w) ==
  /\ wpc[w] = "test"
  /\ ~IsSentinel(val[w])
  /\ count' = [count EXCEPT ![w] = @ + 1]
  /\ wpc' = [wpc EXCEPT ![w] = "yield"]
  /\ UNCHANGED <<pingVars, skyVars, fibVars>>
  /\ UNCHANGED <<NUM_MESSAGES, NUM_WORKERS, missing, work_queue, done_queue, val, fpc,
                 fi, total, printed, put_log, removed, got_log, sentinels_got, late_gets,
                 reports, report_log, read_log>>

\* worker, line 23: await asyncio.sleep(0), then the next iteration.
WorkerYield(w) ==
  /\ wpc[w] = "yield"
  /\ wpc' = [wpc EXCEPT ![w] = "get"]
  /\ UNCHANGED <<pingVars, skyVars, fibVars>>
  /\ UNCHANGED <<NUM_MESSAGES, NUM_WORKERS, missing, work_queue, done_queue, count, val,
                 fpc, fi, total, printed, put_log, removed, got_log, sentinels_got,
                 late_gets, reports, report_log, read_log>>

FanoutMain ==
  \/ MainSpawn
  \/ MainStart
  \/ Produce
  \/ SendSentinels
  \/ Collect
  \/ Gather
  \/ MainStop
  \/ MainPrint

FanoutWorker(w) ==
  \/ WorkerGet(w)
  \/ WorkerReport(w)
  \/ WorkerCount(w)
  \/ WorkerYield(w)

FanoutNext ==
  \/ MainSpawn
  \/ MainStart
  \/ Produce
  \/ SendSentinels
  \/ Collect
  \/ Gather
  \/ MainStop
  \/ MainPrint
  \/ \E w \in Workers : WorkerGet(w)
  \/ \E w \in Workers : WorkerReport(w)
  \/ \E w \in Workers : WorkerCount(w)
  \/ \E w \in Workers : WorkerYield(w)

SpecFanout == FanoutInit /\ [][FanoutNext]_vars

\* Every task that can take a step eventually takes one.
FairSpecFanout ==
  /\ SpecFanout
  /\ WF_vars(FanoutMain)
  /\ \A w \in 1..MaxWorkers : WF_vars(w \in Workers /\ FanoutWorker(w))

FanoutDone == fpc = "done" /\ \A w \in Workers : wpc[w] = "done"

\* A fault injected in a worker: the task ends with an unhandled exception
\* at any statement of its loop (lines 17-23).  Nothing else of the program
\* changes: main awaits the worker tasks only at line 56, and the exception
\* would be raised in main there.
WorkerFail(w) ==
  /\ wpc[w] \in {"get", "test", "yield"}
  /\ wpc' = [wpc EXCEPT ![w] = "failed"]
  /\ UNCHANGED <<pingVars, skyVars, fibVars>>
  /\ UNCHANGED <<NUM_MESSAGES, NUM_WORKERS, missing, work_queue, done_queue,
                 count, val, fpc, fi, total, printed, put_log, removed, got_log,
                 sentinels_got, late_gets, reports, report_log, read_log>>

FanoutFaultyNext ==
  \/ FanoutNext
  \/ \E w \in Workers : WorkerFail(w)

SpecFanoutFaulty == FanoutInit /\ [][FanoutFaultyNext]_vars

\* The fanout program with a protocol violation injected: main sends
\* NUM_WORKERS - missing sentinels, missing drawn from 0..NUM_WORKERS
\* (0 is the program as written).  Workers and coordinator are unchanged.
FanoutShortInit ==
  /\ FanoutBegin
  /\ missing \in 0..NUM_WORKERS

SpecFanoutShort == FanoutShortInit /\ [][FanoutNext]_vars

FairSpecFanoutShort ==
  /\ SpecFanoutShort
  /\ WF_vars(FanoutMain)
  /\ \A w \in 1..MaxWorkers : WF_vars(w \in Workers /\ FanoutWorker(w))

\* ------------------------------------------------------------------------
\* fanout: properties
\* ------------------------------------------------------------------------
RECURSIVE SumSeq(_)
SumSeq(s) == IF s = <<>> THEN 0 ELSE Head(s) + SumSeq(Tail(s))

Range(s) == {s[k] : k \in 1..Len(s)}

NoDuplicates(s) == \A j, k \in 1..Len(s) : j # k => s[j] # s[k]

\* The payloads 0..n-1 followed by k sentinels.
Protocol(n, k) == [j \in 1..(n + k) |-> IF j <= n THEN j - 1 ELSE SENTINEL]

\* C1: when the coordinator reports, it has read exactly W values from the
\* results channel and the total it reports is their sum and equals N.
C1_TotalEqualsN ==
  fpc = "done" =>
    /\ Len(read_log) = NUM_WORKERS
    /\ printed = <<SumSeq(read_log)>>
    /\ printed = <<NUM_MESSAGES>>

\* A finished run in which two workers each counted part of the payloads.
C1_Witness ==
  /\ fpc = "done"
  /\ NUM_MESSAGES >= 3
  /\ \E j, k \in 1..Len(read_log) : j # k /\ read_log[j] > 0 /\ read_log[k] > 1

\* C2: with W sentinels after the N payloads no reachable state is a
\* deadlock, and under fair scheduling every worker terminates and the
\* coordinator reads W results and reports.
C2_FanoutCompletes ==
  /\ [](FanoutDone \/ ENABLED FanoutNext)
  /\ <>(FanoutDone /\ Len(read_log) = NUM_WORKERS /\ Len(printed) = 1)

\* The run with no payload at all and several workers has completed.
C2_Witness ==
  /\ FanoutDone
  /\ NUM_MESSAGES = 0
  /\ NUM_WORKERS >= 3
  /\ printed = <<0>>
  /\ Len(removed) = NUM_WORKERS

\* C3: no message of the work channel is removed twice, every message put is
\* either still queued or removed, and at the report the N payloads and the W
\* sentinels have all been put and removed and the channel is empty.
C3_EachMessageRemovedOnce ==
  /\ NoDuplicates(removed)
  /\ Range(removed) \cap {work_queue[k].id : k \in 1..Len(work_queue)} = {}
  /\ Range(removed) \cup {work_queue[k].id : k \in 1..Len(work_queue)}
       = 1..Len(put_log)
  /\ Len(removed) + Len(work_queue) = Len(put_log)
  /\ fpc = "done" =>
       /\ put_log = Protocol(NUM_MESSAGES, NUM_WORKERS)
       /\ work_queue = <<>>
       /\ Range(removed) = 1..(NUM_MESSAGES + NUM_WORKERS)

\* A reported run with payloads, where everything put has been removed.
C3_Witness ==
  /\ fpc = "done"
  /\ NUM_MESSAGES >= 2
  /\ NUM_WORKERS >= 2
  /\ Len(removed) = NUM_MESSAGES + NUM_WORKERS

\* C4: a worker receives at most one sentinel and reports at most once, it
\* never gets from the work channel after its sentinel, it has terminated
\* exactly when it has reported its counter (having received its sentinel),
\* the values put on the results channel are the counters of the workers that
\* reported, and the results channel receives W values in all.
C4_OneSentinelPerWorker ==
  /\ \A w \in Workers :
       /\ sentinels_got[w] <= 1
       /\ reports[w] <= 1
       /\ late_gets[w] = 0
       /\ wpc[w] = "done" <=> reports[w] = 1
       /\ reports[w] = 1 => sentinels_got[w] = 1
       /\ (sentinels_got[w] = 1 /\ reports[w] = 0) =>
            (wpc[w] = "test" /\ val[w] = SENTINEL)
  /\ Len(done_queue) + Len(read_log)
       = Cardinality({w \in Workers : reports[w] = 1})
  /\ SumSeq(done_queue) + SumSeq(read_log)
       = SumSeq([w \in Workers |-> IF reports[w] = 1 THEN count[w] ELSE 0])
  /\ FanoutDone => \A w \in Workers : reports[w] = 1

\* All of several workers have terminated, one of them without any payload.
C4_Witness ==
  /\ NUM_WORKERS >= 3
  /\ NUM_MESSAGES >= 2
  /\ \A w \in Workers : wpc[w] = "done" /\ sentinels_got[w] = 1
  /\ \E w \in Workers : count[w] = 0
  /\ \E w \in Workers : count[w] >= 2

\* ------------------------------------------------------------------------
\* pingpong
\* ------------------------------------------------------------------------
\* main, line 37: ping is called with count = ITERATIONS
PingRounds == ITERATIONS

\* Mutant of PongRounds: the responder loops one time too few.
PongRounds_OneShort == ITERATIONS - 1

\* main, line 34: pong is called with count = ITERATIONS
PongRounds == ITERATIONS

PingPongInit ==
  /\ FanoutIdle
  /\ SkynetIdle
  /\ FibIdle
  /\ ITERATIONS \in 0..MaxIterations
  /\ ping_queue = <<>>
  /\ pong_queue = <<>>
  /\ ppc = "start"
  /\ ping_i = 0
  /\ pong_pc = "new"
  /\ pong_n = 0
  /\ pong_val = 0
  /\ pp_printed = <<>>
  /\ ping_sent = <<>>
  /\ ping_echo = <<>>
  /\ pong_got = <<>>
  /\ pong_sent = <<>>

\* main, line 31: start = time.perf_counter_ns()
PPStart ==
  /\ ppc = "start"
  /\ ppc' = "spawn"
  /\ UNCHANGED <<fanoutVars, skyVars, fibVars>>
  /\ UNCHANGED <<ITERATIONS, ping_queue, pong_queue, ping_i, pong_pc, pong_n,
                 pong_val, pp_printed, ping_sent, ping_echo, pong_got, pong_sent>>

\* main, line 34: pong_task = asyncio.create_task(pong(...))
PPSpawn ==
  /\ ppc = "spawn"
  /\ pong_pc' = "get"
  /\ ppc' = "ping_put"
  /\ UNCHANGED <<fanoutVars, skyVars, fibVars>>
  /\ UNCHANGED <<ITERATIONS, ping_queue, pong_queue, ping_i, pong_n, pong_val,
                 pp_printed, ping_sent, ping_echo, pong_got, pong_sent>>

\* ping, lines 22-23: for i in range(count): await ping_queue.put(i)
PingPut ==
  /\ ppc = "ping_put"
  /\ ping_i < PingRounds
  /\ ping_queue' = QueuePut(ping_queue, ping_i)
  /\ ping_sent' = Append(ping_sent, ping_i)
  /\ ppc' = "ping_get"
  /\ UNCHANGED <<fanoutVars, skyVars, fibVars>>
  /\ UNCHANGED <<ITERATIONS, pong_queue, ping_i, pong_pc, pong_n, pong_val,
                 pp_printed, ping_echo, pong_got, pong_sent>>

\* Mutant of PingGet: the initiator goes on without waiting for the echo.
PingGet_NoWait ==
  /\ ppc = "ping_get"
  /\ ping_i' = ping_i + 1
  /\ ppc' = "ping_put"
  /\ UNCHANGED <<fanoutVars, skyVars, fibVars>>
  /\ UNCHANGED <<ITERATIONS, ping_queue, pong_queue, pong_pc, pong_n, pong_val,
                 pp_printed, ping_sent, ping_echo, pong_got, pong_sent>>

\* ping, line 24: await pong_queue.get(), the value is discarded
PingGet ==
  /\ ppc = "ping_get"
  /\ QueueCanGet(pong_queue)
  /\ ping_echo' = Append(ping_echo, QueueHead(pong_queue))
  /\ pong_queue' = QueueRest(pong_queue)
  /\ ping_i' = ping_i + 1
  /\ ppc' = "ping_put"
  /\ UNCHANGED <<fanoutVars, skyVars, fibVars>>
  /\ UNCHANGED <<ITERATIONS, ping_queue, pong_pc, pong_n, pong_val, pp_printed,
                 ping_sent, pong_got, pong_sent>>

\* ping, line 22: the loop ends, ping returns to main (line 37)
PingReturn ==
  /\ ppc = "ping_put"
  /\ ping_i >= PingRounds
  /\ ppc' = "await"
  /\ UNCHANGED <<fanoutVars, skyVars, fibVars>>
  /\ UNCHANGED <<ITERATIONS, ping_queue, pong_queue, ping_i, pong_pc, pong_n,
                 pong_val, pp_printed, ping_sent, ping_echo, pong_got, pong_sent>>

\* Mutant of PPAwait: main goes on without awaiting the pong task.
PPAwait_NoWait ==
  /\ ppc = "await"
  /\ ppc' = "stop"
  /\ UNCHANGED <<fanoutVars, skyVars, fibVars>>
  /\ UNCHANGED <<ITERATIONS, ping_queue, pong_queue, ping_i, pong_pc, pong_n,
                 pong_val, pp_printed, ping_sent, ping_echo, pong_got, pong_sent>>

\* main, line 40: await pong_task
PPAwait ==
  /\ ppc = "await"
  /\ pong_pc = "done"
  /\ ppc' = "stop"
  /\ UNCHANGED <<fanoutVars, skyVars, fibVars>>
  /\ UNCHANGED <<ITERATIONS, ping_queue, pong_queue, ping_i, pong_pc, pong_n,
                 pong_val, pp_printed, ping_sent, ping_echo, pong_got, pong_sent>>

\* main, line 42: elapsed = ...
PPStop ==
  /\ ppc = "stop"
  /\ ppc' = "print"
  /\ UNCHANGED <<fanoutVars, skyVars, fibVars>>
  /\ UNCHANGED <<ITERATIONS, ping_queue, pong_queue, ping_i, pong_pc, pong_n,
                 pong_val, pp_printed, ping_sent, ping_echo, pong_got, pong_sent>>

\* main, line 44: print the BENCH line; the result field is ITERATIONS.
PPPrint ==
  /\ ppc = "print"
  /\ pp_printed' = Append(pp_printed, ITERATIONS)
  /\ ppc' = "done"
  /\ UNCHANGED <<fanoutVars, skyVars, fibVars>>
  /\ UNCHANGED <<ITERATIONS, ping_queue, pong_queue, ping_i, pong_pc, pong_n,
                 pong_val, ping_sent, ping_echo, pong_got, pong_sent>>

\* pong, lines 16-17: for _ in range(count): val = await ping_queue.get()
PongGet ==
  /\ pong_pc = "get"
  /\ pong_n < PongRounds
  /\ QueueCanGet(ping_queue)
  /\ pong_val' = QueueHead(ping_queue)
  /\ pong_got' = Append(pong_got, QueueHead(ping_queue))
  /\ ping_queue' = QueueRest(ping_queue)
  /\ pong_pc' = "put"
  /\ UNCHANGED <<fanoutVars, skyVars, fibVars>>
  /\ UNCHANGED <<ITERATIONS, pong_queue, ppc, ping_i, pong_n, pp_printed,
                 ping_sent, ping_echo, pong_sent>>

\* Mutant of PongPut: the responder answers with its iteration number
\* counted from 1 instead of the value it received.
PongPut_Counter ==
  /\ pong_pc = "put"
  /\ pong_queue' = QueuePut(pong_queue, pong_n + 1)
  /\ pong_sent' = Append(pong_sent, pong_n + 1)
  /\ pong_n' = pong_n + 1
  /\ pong_pc' = "get"
  /\ UNCHANGED <<fanoutVars, skyVars, fibVars>>
  /\ UNCHANGED <<ITERATIONS, ping_queue, ppc, ping_i, pong_val, pp_printed,
                 ping_sent, ping_echo, pong_got>>

\* pong, line 18: await pong_queue.put(val)
PongPut ==
  /\ pong_pc = "put"
  /\ pong_queue' = QueuePut(pong_queue, pong_val)
  /\ pong_sent' = Append(pong_sent, pong_val)
  /\ pong_n' = pong_n + 1
  /\ pong_pc' = "get"
  /\ UNCHANGED <<fanoutVars, skyVars, fibVars>>
  /\ UNCHANGED <<ITERATIONS, ping_queue, ppc, ping_i, pong_val, pp_printed,
                 ping_sent, ping_echo, pong_got>>

\* pong, line 16: the loop ends, the task completes
PongReturn ==
  /\ pong_pc = "get"
  /\ pong_n >= PongRounds
  /\ pong_pc' = "done"
  /\ UNCHANGED <<fanoutVars, skyVars, fibVars>>
  /\ UNCHANGED <<ITERATIONS, ping_queue, pong_queue, ppc, ping_i, pong_n,
                 pong_val, pp_printed, ping_sent, ping_echo, pong_got, pong_sent>>

PingPongMain ==
  \/ PPStart
  \/ PPSpawn
  \/ PingPut
  \/ PingGet
  \/ PingReturn
  \/ PPAwait
  \/ PPStop
  \/ PPPrint

PingPongResponder ==
  \/ PongGet
  \/ PongPut
  \/ PongReturn

PingPongNext ==
  \/ PingPongMain
  \/ PingPongResponder

SpecPingPong == PingPongInit /\ [][PingPongNext]_vars

\* Every task that can take a step eventually takes one.
FairSpecPingPong ==
  /\ SpecPingPong
  /\ WF_vars(PingPongMain)
  /\ WF_vars(PingPongResponder)

PingPongDone == ppc = "done" /\ pong_pc = "done"

\* ------------------------------------------------------------------------
\* pingpong: properties
\* ------------------------------------------------------------------------
\* The values 0..n-1 in order.
UpTo(n) == [j \in 1..n |-> j - 1]

\* C5: at most one value is in flight: the values put on ping minus the
\* echoes received from pong is 0 or 1, and the two channels together hold
\* at most one value.
C5_LockStep ==
  /\ Len(ping_sent) - Len(ping_echo) \in {0, 1}
  /\ Len(ping_queue) + Len(pong_queue) <= 1

\* In a later round trip, the value is in flight on pong.
C5_Witness ==
  /\ Len(ping_sent) = 3
  /\ Len(ping_echo) = 2
  /\ Len(pong_queue) = 1

\* C6: the value received from pong on round trip i is the value put on ping
\* on round trip i, namely i; the responder echoes what it got, in order.
C6_EchoUnchanged ==
  /\ \A k \in 1..Len(ping_echo) : ping_echo[k] = ping_sent[k] /\ ping_echo[k] = k - 1
  /\ \A k \in 1..Len(pong_sent) : pong_sent[k] = pong_got[k]
  /\ ppc = "done" => ping_echo = UpTo(ITERATIONS)

\* Several echoes have been received.
C6_Witness ==
  /\ ppc = "done"
  /\ ITERATIONS >= 3
  /\ Len(ping_echo) = ITERATIONS

\* C7: the responder has got round trip i+1's value only if the initiator
\* has received round trip i's echo.
C7_NoPipelining == Len(pong_got) <= Len(ping_echo) + 1

\* The responder holds round trip 3's value, and two echoes were received.
C7_Witness ==
  /\ pong_pc = "put"
  /\ Len(pong_got) = 3
  /\ Len(ping_echo) = 2

\* C8: under fair scheduling the run terminates, both tasks finish, the
\* report comes after the responder has completed, and at the report exactly
\* N values have passed through ping and N through pong.
C8_PingPongTerminates ==
  /\ <>PingPongDone
  /\ [](ppc \in {"stop", "print", "done"} =>
          /\ pong_pc = "done"
          /\ Len(ping_sent) = ITERATIONS /\ Len(pong_got) = ITERATIONS
          /\ Len(pong_sent) = ITERATIONS /\ Len(ping_echo) = ITERATIONS
          /\ ping_queue = <<>> /\ pong_queue = <<>>)

\* The run with no round trip at all has terminated, nothing was sent.
C8_WitnessZero ==
  /\ PingPongDone
  /\ ITERATIONS = 0
  /\ ping_sent = <<>>
  /\ pp_printed = <<0>>

\* A run with round trips has terminated.
C8_Witness ==
  /\ PingPongDone
  /\ ITERATIONS >= 3
  /\ Len(ping_echo) = ITERATIONS

\* ------------------------------------------------------------------------
\* skynet
\* ------------------------------------------------------------------------
\* Each invocation of skynet is a task of the event loop (the root runs in
\* main's task).  Between two awaits a task runs without interruption, so a
\* step of a task is one action.  The event loop runs one task of its run
\* queue at a time.  asyncio takes the oldest; so that tasks also complete
\* in other orders, a run of the model takes always the oldest, always the
\* newest, or (for the trees of at most 10 leaves, where the state space
\* allows it) any task of the queue.
\* Mutant of BranchFactor: the loop over the children stops one short.
BranchFactor_Nine == 10 - 1

\* skynet, line 24: for i in range(10)
BranchFactor == 10

RECURSIVE Pow10(_)
Pow10(k) == IF k = 0 THEN 1 ELSE 10 * Pow10(k - 1)

\* skynet, line 18: if size == 1
IsLeaf(size) == size = 1

\* Mutant of LeafResult: a leaf counts itself instead of returning its number.
LeafResult_One(num) == 1

\* skynet, line 19: return num
LeafResult(num) == num

\* Mutant of ChildSize: the division rounds up.
ChildSize_Ceil(size) == (size + 9) \div 10

\* skynet, line 21: child_size = size // 10
ChildSize(size) == size \div 10

\* Mutant of ChildNum: the child's index is not scaled by the child size.
ChildNum_NoScale(num, i, child_size) == num + i

\* skynet, line 23: num + i * child_size
ChildNum(num, i, child_size) == num + i * child_size

\* skynet, line 27: return sum(results), results in the order of the tasks
JoinResult(ts, t) == SumSeq([j \in 1..Len(ts[t].children) |-> ts[ts[t].children[j]].result])

NewTask(num, size, parent) ==
  [num |-> num, size |-> size, parent |-> parent, state |-> "new",
   children |-> <<>>, result |-> 0]

\* skynet, lines 22-25: the child tasks of t, for i in range(10)
Children(t, first) ==
  [j \in 1..BranchFactor |->
     NewTask(ChildNum(tasks[t].num, j - 1, ChildSize(tasks[t].size)),
             ChildSize(tasks[t].size), t)]

\* Mutant of AllDone: the await returns at the first completed child.
AllDone_Any(ts, ids) == \E j \in 1..Len(ids) : ts[ids[j]].state = "done"

\* skynet, line 26: gather completes when every awaited task is done
AllDone(ts, ids) == \A j \in 1..Len(ids) : ts[ids[j]].state = "done"

RemoveAt(s, p) == [j \in 1..(Len(s) - 1) |-> IF j < p THEN s[j] ELSE s[j + 1]]

\* The run queue after task t completed: t's parent is woken when t was the
\* last of its children to complete.
Wake(ts, rq, t) ==
  IF ts[t].parent # 0 /\ AllDone(ts, ts[ts[t].parent].children)
    THEN Append(rq, ts[t].parent)
    ELSE rq

\* The model stops creating tasks at this many; a tree that resolves stays
\* below it (it has fewer than 2 * SIZE tasks).
TaskCap == MaxTasks + 2 * SIZE

\* The positions of the run queue the event loop may take next.
Schedulable ==
  CASE ready = <<>> -> {}
    [] ready # <<>> /\ policy = "oldest" -> {1}
    [] ready # <<>> /\ policy = "newest" -> {Len(ready)}
    [] ready # <<>> /\ policy = "any" -> 1..Len(ready)

SkynetInit ==
  /\ FanoutIdle
  /\ PingPongIdle
  /\ FibIdle
  /\ SIZE \in {Pow10(k) : k \in 0..MaxDepth}
  /\ tasks = <<>>
  /\ ready = <<>>
  /\ policy \in {"oldest", "newest", "any"}
  /\ policy = "any" => SIZE <= BranchFactor
  /\ spc = "start"
  /\ sky_result = 0
  /\ sky_printed = <<>>

\* main, line 31: start = time.perf_counter_ns()
SkyStart ==
  /\ spc = "start"
  /\ spc' = "call"
  /\ UNCHANGED <<fanoutVars, pingVars, fibVars>>
  /\ UNCHANGED <<SIZE, tasks, ready, policy, sky_result, sky_printed>>

\* main, line 32: the call skynet(0, SIZE)
SkyCall ==
  /\ spc = "call"
  /\ tasks' = <<NewTask(0, SIZE, 0)>>
  /\ ready' = <<1>>
  /\ spc' = "await"
  /\ UNCHANGED <<fanoutVars, pingVars, fibVars>>
  /\ UNCHANGED <<SIZE, policy, sky_result, sky_printed>>

\* skynet, lines 18-19: a leaf returns its number
TaskLeaf(p) ==
  LET t == ready[p]
      ts == [tasks EXCEPT ![t].state = "done",
                          ![t].result = LeafResult(tasks[t].num)]
  IN /\ tasks[t].state = "new"
     /\ IsLeaf(tasks[t].size)
     /\ tasks' = ts
     /\ ready' = Wake(ts, RemoveAt(ready, p), t)
     /\ UNCHANGED <<fanoutVars, pingVars, fibVars>>
     /\ UNCHANGED <<SIZE, policy, spc, sky_result, sky_printed>>

\* skynet, lines 21-26: create the 10 child tasks and await them
TaskSpawn(p) ==
  LET t == ready[p]
      first == Len(tasks) + 1
      ids == [j \in 1..BranchFactor |-> first + j - 1]
  IN /\ tasks[t].state = "new"
     /\ ~IsLeaf(tasks[t].size)
     /\ Len(tasks) + BranchFactor <= TaskCap
     /\ tasks' = [tasks EXCEPT ![t].state = "waiting", ![t].children = ids]
                   \o Children(t, first)
     /\ ready' = RemoveAt(ready, p) \o ids
     /\ UNCHANGED <<fanoutVars, pingVars, fibVars>>
     /\ UNCHANGED <<SIZE, policy, spc, sky_result, sky_printed>>

\* skynet, lines 26-27: gather has completed, return the sum of the results
TaskJoin(p) ==
  LET t == ready[p]
      ts == [tasks EXCEPT ![t].state = "done", ![t].result = JoinResult(tasks, t)]
  IN /\ tasks[t].state = "waiting"
     /\ AllDone(tasks, tasks[t].children)
     /\ tasks' = ts
     /\ ready' = Wake(ts, RemoveAt(ready, p), t)
     /\ UNCHANGED <<fanoutVars, pingVars, fibVars>>
     /\ UNCHANGED <<SIZE, policy, spc, sky_result, sky_printed>>

\* main, line 32: result = await skynet(0, SIZE)
SkyReturn ==
  /\ spc = "await"
  /\ tasks[1].state = "done"
  /\ sky_result' = tasks[1].result
  /\ spc' = "stop"
  /\ UNCHANGED <<fanoutVars, pingVars, fibVars>>
  /\ UNCHANGED <<SIZE, tasks, ready, policy, sky_printed>>

\* main, line 33: elapsed = ...
SkyStop ==
  /\ spc = "stop"
  /\ spc' = "print"
  /\ UNCHANGED <<fanoutVars, pingVars, fibVars>>
  /\ UNCHANGED <<SIZE, tasks, ready, policy, sky_result, sky_printed>>

\* main, line 34: print the BENCH line with result
SkyPrint ==
  /\ spc = "print"
  /\ sky_printed' = Append(sky_printed, sky_result)
  /\ spc' = "done"
  /\ UNCHANGED <<fanoutVars, pingVars, fibVars>>
  /\ UNCHANGED <<SIZE, tasks, ready, policy, sky_result>>

SkynetNext ==
  \/ SkyStart
  \/ SkyCall
  \/ SkyReturn
  \/ SkyStop
  \/ SkyPrint
  \/ \E p \in Schedulable : TaskLeaf(p)
  \/ \E p \in Schedulable : TaskSpawn(p)
  \/ \E p \in Schedulable : TaskJoin(p)

SpecSkynet == SkynetInit /\ [][SkynetNext]_vars

\* skynet(0, SIZE) called with any size, not only the powers of 10 that
\* the program's constant is: the small sizes, and per decade its power of
\* 10, one and a half times it and twice it.
SkynetAnyInit ==
  /\ FanoutIdle
  /\ PingPongIdle
  /\ FibIdle
  /\ SIZE \in (0..MaxSize) \cup
       UNION {{Pow10(k), (3 * Pow10(k)) \div 2, 2 * Pow10(k)} : k \in 1..MaxDepth}
  /\ tasks = <<>>
  /\ ready = <<>>
  /\ policy \in {"oldest", "newest"}
  /\ spc = "start"
  /\ sky_result = 0
  /\ sky_printed = <<>>

SpecSkynetAny == SkynetAnyInit /\ [][SkynetNext]_vars

\* The event loop runs a ready task whenever there is one.
FairSpecSkynetAny == SpecSkynetAny /\ WF_vars(SkynetNext)

\* ------------------------------------------------------------------------
\* skynet: properties
\* ------------------------------------------------------------------------
TaskIds == 1..Len(tasks)

Leaves == {t \in TaskIds : tasks[t].size = 1}

\* C9: for S = 10^k the reported result of skynet(0, S) is S*(S-1)/2, in
\* whatever order the child tasks ran and completed.
C9_SkynetSum ==
  /\ spc \in {"stop", "print", "done"} => sky_result = (SIZE * (SIZE - 1)) \div 2
  /\ spc = "done" => sky_printed = <<(SIZE * (SIZE - 1)) \div 2>>

\* The tree of 100 leaves has reported after a run in which the event loop
\* always took the newest task, so that later children completed first.
C9_Witness ==
  /\ spc = "done"
  /\ SIZE = 100
  /\ policy = "newest"
  /\ sky_printed = <<4950>>

\* C10: a leaf returns its own number; the children of an invocation cover
\* contiguous, pairwise disjoint ranges whose union is the parent's range;
\* when the root has returned, the leaves have returned exactly 0..S-1, each
\* exactly once.
C10_LeavesEnumerateRange ==
  /\ \A t \in Leaves : tasks[t].state = "done" => tasks[t].result = tasks[t].num
  /\ \A t \in TaskIds :
       tasks[t].children # <<>> =>
         LET c == tasks[t].children
         IN /\ Len(c) = 10
            /\ tasks[c[1]].num = tasks[t].num
            /\ \A j \in 1..9 :
                 tasks[c[j + 1]].num = tasks[c[j]].num + tasks[c[j]].size
            /\ tasks[c[10]].num + tasks[c[10]].size = tasks[t].num + tasks[t].size
            /\ \A j \in 1..10 : tasks[c[j]].size >= 1
  /\ spc \in {"stop", "print", "done"} =>
       /\ \A t \in Leaves : tasks[t].state = "done"
       /\ \A v \in 0..(SIZE - 1) :
            Cardinality({t \in Leaves : tasks[t].result = v}) = 1
       /\ Cardinality(Leaves) = SIZE

\* The tree of 100 leaves has returned.
C10_Witness ==
  /\ spc = "stop"
  /\ SIZE = 100
  /\ Cardinality(Leaves) = 100
  /\ \E t \in Leaves : tasks[t].result = 99

RECURSIVE Depth(_)
\* The number of invocations between task t and the root.
Depth(t) == IF tasks[t].parent = 0 THEN 0 ELSE 1 + Depth(tasks[t].parent)

RECURSIVE Log10(_)
\* The k with 10^k <= s < 10^(k+1), for s >= 1.
Log10(s) == IF s < 10 THEN 0 ELSE 1 + Log10(s \div 10)

\* C11: for S = 10^k no task is ever deeper than k and at most S leaf tasks
\* exist; when the root has returned, exactly S leaf tasks were created, all
\* of them at depth k, so the tree has depth k (k = 0: the root is the leaf).
C11_LeafCountAndDepth ==
  /\ \A t \in TaskIds : Depth(t) <= Log10(SIZE)
  /\ Cardinality(Leaves) <= SIZE
  /\ spc \in {"stop", "print", "done"} =>
       /\ Cardinality(Leaves) = SIZE
       /\ \A t \in Leaves : Depth(t) = Log10(SIZE)
       /\ \E t \in TaskIds : Depth(t) = Log10(SIZE)

\* The tree of 100 leaves has returned: 111 tasks, the last at depth 2.
C11_Witness ==
  /\ spc = "done"
  /\ SIZE = 100
  /\ Len(tasks) = 111
  /\ Depth(111) = 2

\* The single leaf of S = 1 has returned: one task, at depth 0.
C11_WitnessOne ==
  /\ spc = "done"
  /\ SIZE = 1
  /\ Len(tasks) = 1

\* C12: an invocation that is not a leaf and has passed its spawn has exactly
\* 10 children, all its own; it is done only when all 10 are done; and main
\* has the root's result only when every task of the tree is done.
C12_StructuredJoin ==
  /\ \A t \in TaskIds :
       /\ (tasks[t].state # "new" /\ ~IsLeaf(tasks[t].size)) =>
            /\ Len(tasks[t].children) = 10
            /\ \A j \in 1..10 : tasks[tasks[t].children[j]].parent = t
       /\ tasks[t].state = "done" =>
            \A j \in 1..Len(tasks[t].children) :
              tasks[tasks[t].children[j]].state = "done"
       /\ IsLeaf(tasks[t].size) => tasks[t].children = <<>>
  /\ spc \in {"stop", "print", "done"} =>
       /\ \A t \in TaskIds : tasks[t].state = "done"
       /\ ready = <<>>

\* An inner invocation of the tree of 100 leaves is done, with its 10
\* children, while another one still waits for its own.
C12_Witness ==
  /\ SIZE = 100
  /\ \E t, u \in TaskIds :
       /\ tasks[t].size = 10 /\ tasks[t].state = "done"
       /\ tasks[u].size = 10 /\ tasks[u].state = "waiting"

\* ------------------------------------------------------------------------
\* the two channel harnesses together
\* ------------------------------------------------------------------------
\* A run of the fanout program or a run of the pingpong program.
HarnessInit == FanoutInit \/ PingPongInit

HarnessNext == FanoutNext \/ PingPongNext

SpecHarness == HarnessInit /\ [][HarnessNext]_vars

IsPrefix(s, t) == Len(s) <= Len(t) /\ \A k \in 1..Len(s) : s[k] = t[k]

\* What was put on a channel and not yet got from it.
Pending(sent, got) == SubSeq(sent, Len(got) + 1, Len(sent))

\* C13: on each of the four channels the values got are, in order, the first
\* of the values put, and the channel holds the rest in order (so nothing is
\* lost, duplicated or reordered, and each producer's order is kept); a task
\* at a put can always step; a get can step exactly when its channel is not
\* empty.
C13_ChannelFifo ==
  /\ IsPrefix(got_log, put_log)
  /\ [k \in 1..Len(work_queue) |-> work_queue[k].val] = Pending(put_log, got_log)
  /\ IsPrefix(put_log, Protocol(NUM_MESSAGES, NUM_WORKERS))
  /\ IsPrefix(read_log, report_log)
  /\ done_queue = Pending(report_log, read_log)
  /\ IsPrefix(pong_got, ping_sent)
  /\ ping_queue = Pending(ping_sent, pong_got)
  /\ IsPrefix(ping_echo, pong_sent)
  /\ pong_queue = Pending(pong_sent, ping_echo)
  /\ fpc = "produce" => ENABLED Produce
  /\ fpc = "sentinels" => ENABLED SendSentinels
  /\ \A w \in Workers :
       /\ (wpc[w] = "test" /\ IsSentinel(val[w])) => ENABLED WorkerReport(w)
       /\ wpc[w] = "get" => (ENABLED WorkerGet(w) <=> work_queue # <<>>)
  /\ (fpc = "collect" /\ fi < NUM_WORKERS) => (ENABLED Collect <=> done_queue # <<>>)
  /\ (ppc = "ping_put" /\ ping_i < ITERATIONS) => ENABLED PingPut
  /\ pong_pc = "put" => ENABLED PongPut
  /\ ppc = "ping_get" => (ENABLED PingGet <=> pong_queue # <<>>)
  /\ (pong_pc = "get" /\ pong_n < ITERATIONS) =>
       (ENABLED PongGet <=> ping_queue # <<>>)

\* Two workers hold values they got from the work channel, which still holds
\* two more, and a third worker has already reported.
C13_Witness ==
  /\ Len(got_log) >= 3
  /\ Len(work_queue) >= 2
  /\ \E v, w \in Workers : v # w /\ wpc[v] = "test" /\ wpc[w] = "test"
                             /\ val[v] # val[w]
  /\ Len(report_log) >= 1

\* C14: when a harness prints its BENCH line, every task it spawned has
\* terminated (the W workers; the responder) and its channels are empty
\* (work and results; ping and pong).
C14_NothingAliveAtReport ==
  /\ fpc \in {"print", "done"} =>
       /\ \A w \in Workers : wpc[w] = "done"
       /\ work_queue = <<>>
       /\ done_queue = <<>>
  /\ ppc \in {"print", "done"} =>
       /\ pong_pc = "done"
       /\ ping_queue = <<>>
       /\ pong_queue = <<>>

\* Fanout has printed after a run with payloads and several workers.
C14_Witness ==
  /\ Len(printed) = 1
  /\ NUM_WORKERS >= 3
  /\ NUM_MESSAGES >= 2
  /\ Len(put_log) = NUM_MESSAGES + NUM_WORKERS

\* Pingpong has printed after a run with round trips.
C14_WitnessPingPong ==
  /\ Len(pp_printed) = 1
  /\ ITERATIONS >= 3
  /\ Len(pong_sent) = ITERATIONS

\* The run is stuck: the coordinator waits on the empty results channel,
\* at least as many workers as sentinels are missing wait on the empty work
\* channel, and no task can take a step.
Hung ==
  /\ fpc = "collect"
  /\ fi < NUM_WORKERS
  /\ done_queue = <<>>
  /\ work_queue = <<>>
  /\ Cardinality({w \in Workers : wpc[w] = "get"}) >= missing
  /\ \A w \in Workers : wpc[w] \in {"get", "done"}
  /\ ~ENABLED FanoutNext

\* C15: when fewer sentinels than workers are sent (missing > 0) the run
\* never reaches the gather, the timestamp or the print; at most
\* W - missing workers ever terminate and results are ever read; and the
\* only state in which the run stops is Hung, which no step of the program
\* (there is no timeout, cancellation or error step) leaves.
C15_ShortSentinelsHang ==
  missing > 0 =>
    /\ printed = <<>>
    /\ fpc \notin {"gather", "stop", "print", "done"}
    /\ Cardinality({w \in Workers : wpc[w] = "done"}) <= NUM_WORKERS - missing
    /\ Len(read_log) <= NUM_WORKERS - missing
    /\ ~ENABLED FanoutNext => Hung

\* The same as a liveness property, under fair scheduling: the run with
\* missing sentinels ends up in Hung and stays there for ever.
C15_EventuallyHungForever == [](missing > 0 => <>[]Hung)

\* Two of three workers are stuck on the work channel after one sentinel.
C15_Witness ==
  /\ Hung
  /\ NUM_WORKERS = 3
  /\ missing = 2
  /\ NUM_MESSAGES >= 2
  /\ read_log # <<>>

\* C16: a failure of a worker reaches the coordinator: once a worker has
\* failed, the run does not stop with the coordinator still suspended on the
\* results channel.
C16_FailurePropagates ==
  ((\E w \in Workers : wpc[w] = "failed") /\ ~ENABLED FanoutFaultyNext)
    => fpc \notin {"collect", "gather"}

\* C18 as stated: when the start timestamp is taken (line 41) no worker task
\* has been created yet and no payload has been put.
C18_StartBeforeSpawn ==
  fpc = "start" =>
    /\ \A w \in Workers : wpc[w] = "new"
    /\ put_log = <<>>

\* C18, amended: the start timestamp is taken after all W worker tasks have
\* been created and before the first payload is put (so before any worker has
\* received or reported anything); the end timestamp (line 58) is taken only
\* after all W results have been collected and all W workers have completed.
C18_TimingInterval ==
  /\ fpc = "start" =>
       /\ \A w \in Workers : wpc[w] # "new"
       /\ put_log = <<>>
       /\ got_log = <<>>
       /\ report_log = <<>>
  /\ fpc = "stop" =>
       /\ Len(read_log) = NUM_WORKERS
       /\ \A w \in Workers : wpc[w] = "done"
       /\ Len(put_log) = NUM_MESSAGES + NUM_WORKERS

C18_Witness ==
  /\ fpc = "stop"
  /\ NUM_WORKERS >= 2
  /\ NUM_MESSAGES >= 2

C18_WitnessStart ==
  /\ fpc = "start"
  /\ NUM_WORKERS >= 2
  /\ \E w \in Workers : wpc[w] = "get"

\* The terms of the conservation sum of the fanout benchmark.
PayloadsQueued == Cardinality({k \in 1..Len(work_queue) : work_queue[k].val >= 0})

PayloadsProduced == Cardinality({k \in 1..Len(put_log) : put_log[k] >= 0})

\* Counters of the workers that have not put their count on done_queue.
UnreportedCounts ==
  SumSeq([w \in 1..NUM_WORKERS |-> IF wpc[w] = "done" THEN 0 ELSE count[w]])

\* Payloads a worker has taken (line 18) and not yet counted (line 22).
PayloadsInHand ==
  Cardinality({w \in Workers : wpc[w] = "test" /\ val[w] >= 0})

\* payloads first, sentinels after them
PayloadsThenSentinels(q) ==
  \A j, k \in 1..Len(q) : (j < k /\ q[j].val < 0) => q[k].val < 0

OnlyNegativeIsSentinel ==
  \A k \in 1..Len(put_log) :
    put_log[k] < 0 => (put_log[k] = SENTINEL /\ IsSentinel(put_log[k]))

\* C19 as stated: in every reachable state the payloads in the work channel,
\* the counters of the workers that have not reported, the counts in the
\* results channel and the coordinator's total add up to the payloads
\* produced so far; the work channel is payloads then sentinels and the only
\* negative value enqueued is -1.
C19_Conservation ==
  /\ PayloadsQueued + UnreportedCounts + SumSeq(done_queue) + total = PayloadsProduced
  /\ PayloadsThenSentinels(work_queue)
  /\ OnlyNegativeIsSentinel

\* C19, amended: the sum also has a term for the payloads a worker has taken
\* from the work channel and not yet added to its counter; with that term the
\* equality holds in every reachable state, and so the four-term equality
\* holds whenever no worker is between its get and its increment.
C19_ConservationInHand ==
  /\ PayloadsQueued + PayloadsInHand + UnreportedCounts + SumSeq(done_queue) + total
       = PayloadsProduced
  /\ PayloadsInHand = 0 =>
       PayloadsQueued + UnreportedCounts + SumSeq(done_queue) + total = PayloadsProduced
  /\ PayloadsThenSentinels(work_queue)
  /\ OnlyNegativeIsSentinel

C19_Witness ==
  /\ PayloadsInHand = 1
  /\ PayloadsQueued = 1
  /\ UnreportedCounts = 1
  /\ \E k \in 1..Len(work_queue) : work_queue[k].val = SENTINEL
  /\ PayloadsProduced = 3

\* ------------------------------------------------------------------------
\* skynet called with any size
\* ------------------------------------------------------------------------
IsPow10(s) == s >= 1 /\ s = Pow10(Log10(s))

\* 10^k <= s < 2 * 10^k for some k >= 0
LeadingOne(s) == s >= 1 /\ s < 2 * Pow10(Log10(s))

\* C20 as stated: skynet(0, size) returns only when size is a power of 10.
C20_OnlyPowersOfTen ==
  spc = "done" => IsPow10(SIZE)

\* What never resolving looks like in a run: the root never completes, no
\* task of size 0 completes, a task of size 0 that has run awaits ten tasks
\* of size 0, and the run goes on creating tasks (it stops only where the
\* model stops counting).
NeverResolves ==
  /\ spc \in {"start", "call", "await"}
  /\ sky_printed = <<>>
  /\ tasks # <<>> => tasks[1].state # "done"
  /\ \A t \in TaskIds :
       tasks[t].size = 0 =>
         /\ tasks[t].state # "done"
         /\ tasks[t].state = "waiting" =>
              /\ Len(tasks[t].children) = BranchFactor
              /\ \A j \in 1..BranchFactor : tasks[tasks[t].children[j]].size = 0
  /\ ~ENABLED SkynetNext => Len(tasks) + BranchFactor > TaskCap

\* C20, amended: skynet(0, size) returns exactly when 10^k <= size < 2 * 10^k
\* for some k >= 0 (the powers of 10 are among these); for size 0 and every
\* other size the division by 10 reaches a child of size 0, which spawns ten
\* more of size 0, and no result is ever returned.
C20_TerminatesIffLeadingOne ==
  /\ LeadingOne(SIZE) => <>(spc = "done")
  /\ ~LeadingOne(SIZE) => []NeverResolves

C20_Witness ==
  /\ SIZE = 15
  /\ spc = "done"
  /\ Len(tasks) = 1 + BranchFactor

C20_WitnessNever ==
  /\ SIZE = 20
  /\ \E t \in TaskIds : tasks[t].size = 0 /\ tasks[t].state = "waiting"
  /\ ~ENABLED SkynetNext

\* ------------------------------------------------------------------------
\* fibonacci
\* ------------------------------------------------------------------------
RECURSIVE fib_naive(_)
\* fib_naive, lines 9-12
fib_naive(n) == IF n < 2 THEN n ELSE fib_naive(n - 1) + fib_naive(n - 2)

RECURSIVE FibLoop(_, _, _)
\* fib_fast, lines 19-21: k more iterations of a, b = b, a + b, then return b
FibLoop(a, b, k) == IF k = 0 THEN b ELSE FibLoop(b, a + b, k - 1)

\* fib_fast, lines 15-21
fib_fast(n) == IF n < 2 THEN n ELSE FibLoop(0, 1, n - 1)

\* main, lines 46-56: the sub-tests in the order main runs them.  The
\* arguments n, expected and iterations that main passes are replaced by
\* values drawn from small sets when the sub-test is called, so that both a
\* matching and a differing expected value occur.
FibTests ==
  << [name |-> "fib-naive-30", kind |-> "bench", func |-> "fib_naive"],
     [name |-> "fib-naive-35", kind |-> "bench", func |-> "fib_naive"],
     [name |-> "fib-fast-30", kind |-> "bench", func |-> "fib_fast"],
     [name |-> "fib-fast-50", kind |-> "bench", func |-> "fib_fast"],
     [name |-> "fib-fast-70", kind |-> "bench", func |-> "fib_fast"],
     [name |-> "fib-naive-20-x1000", kind |-> "bench_repeated", func |-> "fib_naive"],
     [name |-> "fib-fast-20-x1000", kind |-> "bench_repeated", func |-> "fib_fast"] >>

\* func(n) for the function the sub-test was given
Apply(func, n) == IF func = "fib_naive" THEN fib_naive(n) ELSE fib_fast(n)

FibArgs == 0..MaxFibArg

FibExpected == 0..fib_fast(MaxFibArg)

\* Mutant of Mismatch: only a result above the expected value is reported.
Mismatch_Greater(result, expected) == result > expected

\* bench line 29, bench_repeated line 40: if result != expected
Mismatch(result, expected) == result # expected

FibInit ==
  /\ FanoutIdle
  /\ PingPongIdle
  /\ SkynetIdle
  /\ fib_pc = "main"
  /\ fib_idx = 1
  /\ fib_n = 0
  /\ fib_expected = 0
  /\ fib_iterations = 0
  /\ fib_k = 0
  /\ fib_result = 0
  /\ fib_out = <<>>
  /\ fib_line = NoLine
  /\ fib_differs = {}

Running(kind, pc) ==
  /\ fib_pc = pc
  /\ fib_idx \in 1..Len(FibTests)
  /\ FibTests[fib_idx].kind = kind

\* print(f"BENCH:fibonacci:{name}:{result}:{elapsed_ms}")
PrintBench ==
  /\ fib_out' = Append(fib_out, [kind |-> "BENCH", test |-> fib_idx])
  /\ fib_line' = [kind |-> "BENCH", name |-> FibTests[fib_idx].name,
                   result |-> fib_result]
  /\ fib_differs' = IF fib_result # fib_expected
                      THEN fib_differs \cup {fib_idx}
                      ELSE fib_differs

\* print(f"ERROR: expected {expected}, got {result}")
PrintError ==
  /\ fib_out' = Append(fib_out, [kind |-> "ERROR", test |-> fib_idx])
  /\ fib_line' = [kind |-> "ERROR", expected |-> fib_expected, got |-> fib_result]

\* main, lines 46-52: bench(name, n, expected, func); bench line 25
BenchCall ==
  /\ Running("bench", "main")
  /\ \E n \in FibArgs, e \in FibExpected :
       /\ fib_n' = n
       /\ fib_expected' = e
  /\ fib_pc' = "compute"
  /\ UNCHANGED <<fanoutVars, pingVars, skyVars>>
  /\ UNCHANGED <<fib_idx, fib_iterations, fib_k, fib_result, fib_out, fib_line,
                 fib_differs>>

\* bench, line 26: result = func(n)
BenchCompute ==
  /\ Running("bench", "compute")
  /\ fib_result' = Apply(FibTests[fib_idx].func, fib_n)
  /\ fib_pc' = "print"
  /\ UNCHANGED <<fanoutVars, pingVars, skyVars>>
  /\ UNCHANGED <<fib_idx, fib_n, fib_expected, fib_iterations, fib_k, fib_out,
                 fib_line, fib_differs>>

\* bench, lines 27-28: the BENCH line
BenchPrint ==
  /\ Running("bench", "print")
  /\ PrintBench
  /\ fib_pc' = "check"
  /\ UNCHANGED <<fanoutVars, pingVars, skyVars>>
  /\ UNCHANGED <<fib_idx, fib_n, fib_expected, fib_iterations, fib_k, fib_result>>

\* bench, lines 29-30: the result differs, print the ERROR line and return
BenchError ==
  /\ Running("bench", "check")
  /\ Mismatch(fib_result, fib_expected)
  /\ PrintError
  /\ fib_idx' = fib_idx + 1
  /\ fib_pc' = "main"
  /\ UNCHANGED <<fanoutVars, pingVars, skyVars>>
  /\ UNCHANGED <<fib_n, fib_expected, fib_iterations, fib_k, fib_result, fib_differs>>

\* bench, line 29: the result is the expected one, return
BenchReturn ==
  /\ Running("bench", "check")
  /\ ~Mismatch(fib_result, fib_expected)
  /\ fib_idx' = fib_idx + 1
  /\ fib_pc' = "main"
  /\ UNCHANGED <<fanoutVars, pingVars, skyVars>>
  /\ UNCHANGED <<fib_n, fib_expected, fib_iterations, fib_k, fib_result, fib_out,
                 fib_line, fib_differs>>

\* main, lines 55-56: bench_repeated(name, n, iterations, expected, func);
\* bench_repeated lines 34-35: result = 0
RepeatedCall ==
  /\ Running("bench_repeated", "main")
  /\ \E n \in FibArgs, e \in FibExpected, it \in 0..MaxRepeat :
       /\ fib_n' = n
       /\ fib_expected' = e
       /\ fib_iterations' = it
  /\ fib_result' = 0
  /\ fib_k' = 0
  /\ fib_pc' = "loop"
  /\ UNCHANGED <<fanoutVars, pingVars, skyVars>>
  /\ UNCHANGED <<fib_idx, fib_out, fib_line, fib_differs>>

\* bench_repeated, lines 36-37: for _ in range(iterations): result = func(n)
RepeatedLoop ==
  /\ Running("bench_repeated", "loop")
  /\ IF fib_k < fib_iterations
       THEN /\ fib_result' = Apply(FibTests[fib_idx].func, fib_n)
            /\ fib_k' = fib_k + 1
            /\ fib_pc' = fib_pc
       ELSE /\ fib_pc' = "print"
            /\ UNCHANGED <<fib_result, fib_k>>
  /\ UNCHANGED <<fanoutVars, pingVars, skyVars>>
  /\ UNCHANGED <<fib_idx, fib_n, fib_expected, fib_iterations, fib_out, fib_line,
                 fib_differs>>

\* bench_repeated, lines 38-39: the BENCH line
RepeatedPrint ==
  /\ Running("bench_repeated", "print")
  /\ PrintBench
  /\ fib_pc' = "check"
  /\ UNCHANGED <<fanoutVars, pingVars, skyVars>>
  /\ UNCHANGED <<fib_idx, fib_n, fib_expected, fib_iterations, fib_k, fib_result>>

\* bench_repeated, lines 40-41: the result differs, print the ERROR line
RepeatedError ==
  /\ Running("bench_repeated", "check")
  /\ Mismatch(fib_result, fib_expected)
  /\ PrintError
  /\ fib_idx' = fib_idx + 1
  /\ fib_pc' = "main"
  /\ UNCHANGED <<fanoutVars, pingVars, skyVars>>
  /\ UNCHANGED <<fib_n, fib_expected, fib_iterations, fib_k, fib_result, fib_differs>>

\* bench_repeated, line 40: the result is the expected one, return
RepeatedReturn ==
  /\ Running("bench_repeated", "check")
  /\ ~Mismatch(fib_result, fib_expected)
  /\ fib_idx' = fib_idx + 1
  /\ fib_pc' = "main"
  /\ UNCHANGED <<fanoutVars, pingVars, skyVars>>
  /\ UNCHANGED <<fib_n, fib_expected, fib_iterations, fib_k, fib_result, fib_out,
                 fib_line, fib_differs>>

\* main, after line 56: the last sub-test has returned
FibMainReturn ==
  /\ fib_pc = "main"
  /\ fib_idx = Len(FibTests) + 1
  /\ fib_pc' = "done"
  /\ UNCHANGED <<fanoutVars, pingVars, skyVars>>
  /\ UNCHANGED <<fib_idx, fib_n, fib_expected, fib_iterations, fib_k, fib_result,
                 fib_out, fib_line, fib_differs>>

FibNext ==
  \/ BenchCall
  \/ BenchCompute
  \/ BenchPrint
  \/ BenchError
  \/ BenchReturn
  \/ RepeatedCall
  \/ RepeatedLoop
  \/ RepeatedPrint
  \/ RepeatedError
  \/ RepeatedReturn
  \/ FibMainReturn

SpecFibonacci == FibInit /\ [][FibNext]_vars

\* ------------------------------------------------------------------------
\* fibonacci: properties
\* ------------------------------------------------------------------------
\* The sub-tests whose call has returned.
Returned == 1..(fib_idx - 1)

\* The positions of the output at which a line of this kind for sub-test t is.
LinesOf(kind, t) ==
  {p \in 1..Len(fib_out) : fib_out[p] = [kind |-> kind, test |-> t]}

\* C17: every sub-test prints exactly one BENCH line, in the listed order;
\* when its result differs from the expected value the line 'ERROR: expected
\* <X>, got <Y>' follows its BENCH line, and when the result is the expected
\* value no ERROR line is printed; in both cases the run goes on to the next
\* sub-test and ends after the last one.
C17_MismatchRecoveredLocally ==
  /\ \A t \in Returned :
       /\ Cardinality(LinesOf("BENCH", t)) = 1
       /\ Cardinality(LinesOf("ERROR", t)) = (IF t \in fib_differs THEN 1 ELSE 0)
       /\ \A p \in LinesOf("ERROR", t) : p > 1 /\ (p - 1) \in LinesOf("BENCH", t)
  /\ \A p, q \in 1..Len(fib_out) : p < q => fib_out[p].test <= fib_out[q].test
  /\ \A p \in 1..Len(fib_out) : fib_out[p].test \in 1..Len(FibTests)
  /\ fib_pc = "check" =>
       fib_line = [kind |-> "BENCH", name |-> FibTests[fib_idx].name,
                   result |-> fib_result]
  /\ (fib_pc \in {"main", "done"} /\ fib_line.kind = "ERROR") =>
       /\ fib_line = [kind |-> "ERROR", expected |-> fib_expected, got |-> fib_result]
       /\ fib_expected # fib_result
  /\ fib_pc = "done" => Returned = 1..Len(FibTests)
  /\ fib_pc # "done" => ENABLED FibNext

C17_Witness ==
  /\ fib_pc = "done"
  /\ fib_differs = {2, 6}
  /\ Len(fib_out) = Len(FibTests) + 2
  /\ fib_line.kind = "BENCH"

====
